---- MODULE Spec2Model ----
(***************************************************************************)
(* Model of espflash/src/esp_firmware_image.rs: EspFirmwareImage (a        *)
(* borrowed byte buffer), its entry() and segments() operations, and the   *)
(* SectionIter iterator that segments() returns.                           *)
(*                                                                         *)
(* Bytes are naturals 0..255.  A u32 is kept as two 16-bit halves          *)
(* [hi, lo] so that every value up to 2^32 - 1 is representable; usize     *)
(* arithmetic is done on the halves with the width of the build target     *)
(* (usize_bits).  A Rust panic (slice index out of range, arithmetic       *)
(* overflow in a checked build) is the outcome "panic".                    *)
(***************************************************************************)
EXTENDS Integers, Sequences, FiniteSets, TLC

(* ---------------- bounds of the explored inputs ---------------- *)

\* largest number of segment records encoded into an image, and largest
\* value of the header's segment_count field
MaxSegs == 2

\* largest payload length of one encoded record
MaxPayload == 2

(* ---------------- binary layout (crate::image_format) ---------------- *)

\* size_of::<ImageHeader>()
HEADER_SIZE == 8

\* byte offset of ImageHeader.entry
ENTRY_OFFSET == 0

\* byte offset of ImageHeader.segment_count
SEGMENT_COUNT_OFFSET == 4

\* size_of::<SegmentHeader>(): addr: u32, length: u32
SEGMENT_HEADER_SIZE == 8

\* 2^16, the weight of the high half of a u32
Half == 256 * 256

\* a u32 as two 16-bit halves
U32(h, l) == [hi |-> h, lo |-> l]

\* little-endian decoding of the four bytes b[1..4] (what the Pod cast of
\* bytemuck::from_bytes does for a u32 field on a little-endian host)
U32FromLE(b) == U32(b[3] + 256 * b[4], b[1] + 256 * b[2])

\* the bytes d[off .. off + n) of a buffer, off counted from 0
Bytes(d, off, n) == SubSeq(d, off + 1, off + n)

\* *from_bytes::<ImageHeader>(b) for a slice b of HEADER_SIZE bytes
ImageHeaderFromBytes(b) ==
    [entry |-> U32FromLE(Bytes(b, ENTRY_OFFSET, 4)),
     segment_count |-> b[SEGMENT_COUNT_OFFSET + 1]]

\* *from_bytes::<SegmentHeader>(b) for a slice b of SEGMENT_HEADER_SIZE bytes
SegmentHeaderFromBytes(b) ==
    [addr |-> U32FromLE(Bytes(b, 0, 4)),
     length |-> U32FromLE(Bytes(b, 4, 4))]

\* CodeSegment::new(addr, data)
CodeSegmentNew(a, bytes) == [addr |-> a, data |-> bytes]

(* ---------------- usize arithmetic and slicing ---------------- *)

\* widths of usize on the targets the tool is built for
TargetWidths == {32, 64}

\* a + (v as usize) for a small usize a and a u32 v, as [hi, lo] halves.
\* On a 64-bit target the sum cannot wrap; on a 32-bit target it wraps
\* modulo 2^32 (a build with overflow checks panics instead, which the
\* callers below also end in: the wrapped end lies before the start).
UsizeAddU32(bits, a, v) ==
    LET l == a + v.lo
        h == v.hi + (l \div Half)
    IN  U32(IF bits = 32 THEN h % Half ELSE h, l % Half)

\* the outcome of a panicking slice or call
Panicked == [ok |-> FALSE, bytes |-> <<>>]

\* &data[start .. end] with end given in halves: a panic when the range is
\* not inside the buffer or is inverted, else the bytes
SliceWide(d, start, end) ==
    IF end.hi > 0 \/ end.lo > Len(d) \/ start > end.lo
    THEN Panicked
    ELSE [ok |-> TRUE, bytes |-> Bytes(d, start, end.lo - start)]

\* &data[start .. end] for small offsets
Slice(d, start, end) == SliceWide(d, start, U32(0, end))

(* ---------------- EspFirmwareImage ---------------- *)

NoU32 == U32(0, 0)

\* entry() with the header slice taken one byte late
EntryOfShifted(d) ==
    LET b == Slice(d, 1, HEADER_SIZE + 1)
    IN  IF b.ok
        THEN [kind |-> "value", value |-> ImageHeaderFromBytes(b.bytes).entry]
        ELSE [kind |-> "panic", value |-> NoU32]

\* EspFirmwareImage::entry: the returned u32, or a panic
EntryOf(d) ==
    LET b == Slice(d, 0, HEADER_SIZE)
    IN  IF b.ok
        THEN [kind |-> "value", value |-> ImageHeaderFromBytes(b.bytes).entry]
        ELSE [kind |-> "panic", value |-> NoU32]

\* calc_bootloader_size in segments(): 0 + size_of::<ImageHeader>()
CalcBootloaderSize == 0 + HEADER_SIZE

\* segments() that forgets to skip the header
SegmentsOfNoSkip(d) ==
    LET b == Slice(d, 0, HEADER_SIZE)
    IN  IF b.ok
        THEN [kind |-> "iter", pos |-> 0,
              remaining |-> ImageHeaderFromBytes(b.bytes).segment_count]
        ELSE [kind |-> "panic", pos |-> 0, remaining |-> 0]

\* segments() that takes one record more than the header counts
SegmentsOfOneMore(d) ==
    LET b == Slice(d, 0, HEADER_SIZE)
    IN  IF b.ok
        THEN [kind |-> "iter", pos |-> CalcBootloaderSize,
              remaining |-> ImageHeaderFromBytes(b.bytes).segment_count + 1]
        ELSE [kind |-> "panic", pos |-> 0, remaining |-> 0]

\* EspFirmwareImage::segments: the new SectionIter, or a panic
SegmentsOf(d) ==
    LET b == Slice(d, 0, HEADER_SIZE)
    IN  IF b.ok
        THEN [kind |-> "iter", pos |-> CalcBootloaderSize,
              remaining |-> ImageHeaderFromBytes(b.bytes).segment_count]
        ELSE [kind |-> "panic", pos |-> 0, remaining |-> 0]

(* ---------------- SectionIter::next ---------------- *)

\* remaining lowered by two
DecrementTwice(r) == IF r > 1 THEN r - 2 ELSE 0

\* remaining not lowered
DecrementNot(r) == r

\* self.remaining -= 1
Decrement(r) == r - 1

\* self.pos + size_of::<SegmentHeader>()
PayloadStart(p) == p + SEGMENT_HEADER_SIZE

\* payload end one byte early
PayloadEndShort(bits, p, length) ==
    UsizeAddU32(bits, p + SEGMENT_HEADER_SIZE - 1, length)

\* self.pos + size_of::<SegmentHeader>() + segment.length as usize
PayloadEnd(bits, p, length) ==
    UsizeAddU32(bits, p + SEGMENT_HEADER_SIZE, length)

\* cursor advanced by the payload only
NextPosNoHeader(bits, p, length) == UsizeAddU32(bits, p, length).lo

\* self.pos + segment.length as usize + size_of::<SegmentHeader>()
NextPos(bits, p, length) ==
    UsizeAddU32(bits, p + SEGMENT_HEADER_SIZE, length).lo

NoSegment == [addr |-> NoU32, data |-> <<>>]

\* next() that also demands the following segment header before it yields
NextOfLookahead(d, bits, p, r) ==
    IF r > 0
    THEN LET r1 == Decrement(r)
             hb == Slice(d, p, PayloadStart(p))
             segment == SegmentHeaderFromBytes(hb.bytes)
             body == SliceWide(d, PayloadStart(p),
                               PayloadEnd(bits, p, segment.length))
             p1 == NextPos(bits, p, segment.length)
         IN  IF hb.ok /\ body.ok
                  /\ (r1 > 0 => Slice(d, p1, PayloadStart(p1)).ok)
             THEN [kind |-> "some",
                   item |-> CodeSegmentNew(segment.addr, body.bytes),
                   pos |-> p1,
                   remaining |-> r1]
             ELSE [kind |-> "panic", item |-> NoSegment,
                   pos |-> p, remaining |-> r1]
    ELSE [kind |-> "none", item |-> NoSegment, pos |-> p, remaining |-> r]

\* next() that moves the cursor before it takes the payload slice
NextOfMoveFirst(d, bits, p, r) ==
    IF r > 0
    THEN LET r1 == Decrement(r)
             hb == Slice(d, p, PayloadStart(p))
             segment == SegmentHeaderFromBytes(hb.bytes)
             body == SliceWide(d, PayloadStart(p),
                               PayloadEnd(bits, p, segment.length))
         IN  IF ~hb.ok
             THEN [kind |-> "panic", item |-> NoSegment,
                   pos |-> p, remaining |-> r1]
             ELSE IF ~body.ok
             THEN [kind |-> "panic", item |-> NoSegment,
                   pos |-> NextPos(bits, p, segment.length),
                   remaining |-> r1]
             ELSE [kind |-> "some",
                   item |-> CodeSegmentNew(segment.addr, body.bytes),
                   pos |-> NextPos(bits, p, segment.length),
                   remaining |-> r1]
    ELSE [kind |-> "none", item |-> NoSegment, pos |-> p, remaining |-> r]

\* one call of next() on an iterator (p, r) over d: what it returns
\* (kind "some" with the segment, "none", or "panic") and the iterator's
\* fields afterwards
NextOf(d, bits, p, r) ==
    IF r > 0
    THEN LET r1 == Decrement(r)
             hb == Slice(d, p, PayloadStart(p))
             segment == SegmentHeaderFromBytes(hb.bytes)
             body == SliceWide(d, PayloadStart(p),
                               PayloadEnd(bits, p, segment.length))
         IN  IF hb.ok /\ body.ok
             THEN [kind |-> "some",
                   item |-> CodeSegmentNew(segment.addr, body.bytes),
                   pos |-> NextPos(bits, p, segment.length),
                   remaining |-> r1]
             ELSE [kind |-> "panic", item |-> NoSegment,
                   pos |-> p, remaining |-> r1]
    ELSE [kind |-> "none", item |-> NoSegment, pos |-> p, remaining |-> r]

(* ---------------- images the decoder is run on ---------------- *)

\* the four little-endian bytes of a u32
U32ToLE(v) == <<v.lo % 256, v.lo \div 256, v.hi % 256, v.hi \div 256>>

\* entry points written into the header: 0x40080000 and 0x01020304
EntryVals == {U32(16392, 0), U32(258, 772)}

\* load addresses of the records, taken in turn: 0x3FFB0000 and 0x40080000
AddrVals == <<U32(16379, 0), U32(16392, 0)>>

\* length fields that do not match the record's payload:
\* 0xFFFFFFFF and 0x00010000
HugeLens == {U32(65535, 65535), U32(1, 0)}

\* the j-th payload byte of the i-th record: distinct over the image
PayloadByte(i, j) == 16 * i + j

\* the byte of the header's opaque fields
OpaqueByte == 233

\* a header with entry point e and segment count c
EncodeHeader(e, c) ==
    [i \in 1..HEADER_SIZE |->
        IF i - 1 \in ENTRY_OFFSET..(ENTRY_OFFSET + 3)
        THEN U32ToLE(e)[i - ENTRY_OFFSET]
        ELSE IF i - 1 = SEGMENT_COUNT_OFFSET THEN c ELSE OpaqueByte]

\* one segment record: header (addr, length field), then the payload
EncodeRecord(seg, lenfield) ==
    U32ToLE(seg.addr) \o U32ToLE(lenfield) \o seg.data

RECURSIVE EncodeRecords(_, _)
\* the records of recs back to back; lastlen is the length field written
\* into the last one
EncodeRecords(recs, lastlen) ==
    IF recs = <<>> THEN <<>>
    ELSE IF Len(recs) = 1 THEN EncodeRecord(recs[1], lastlen)
    ELSE EncodeRecord(recs[1], U32(0, Len(recs[1].data)))
            \o EncodeRecords(Tail(recs), lastlen)

\* numbers of bytes cut off the end of an image whose last unit (the last
\* record, or the header when there is no record) has a fixed part of
\* `fixed` bytes and a payload of `plen` bytes: inside the payload, and
\* three depths into the fixed part
CutVals(plen, fixed) ==
    (1..plen) \cup {plen + 1, plen + (fixed \div 2), plen + fixed - 1}

\* the damage done to an encoded image: none, a wrong length field in the
\* last record, or a cut
Damages(recs) ==
    LET n == Len(recs)
    IN  {[kind |-> "intact", len |-> NoU32, cut |-> 0]}
        \cup (IF n = 0
              THEN {[kind |-> "cut", len |-> NoU32, cut |-> c] :
                        c \in 1..HEADER_SIZE}
              ELSE {[kind |-> "len", len |-> h, cut |-> 0] : h \in HugeLens}
                   \cup {[kind |-> "cut", len |-> NoU32, cut |-> c] :
                        c \in CutVals(Len(recs[n].data), SEGMENT_HEADER_SIZE)})

\* the buffer for entry point e, segment count c, records recs, damage dmg
EncodeImage(e, c, recs, dmg) ==
    LET n == Len(recs)
        lastlen == IF dmg.kind = "len" THEN dmg.len
                   ELSE IF n = 0 THEN NoU32 ELSE U32(0, Len(recs[n].data))
        full == EncodeHeader(e, c) \o EncodeRecords(recs, lastlen)
    IN  SubSeq(full, 1, Len(full) - dmg.cut)

(* ---------------- state ---------------- *)

\* the streams (SectionIter values) a caller holds
Streams == {1, 2}

VARIABLES
    image_data,     \* EspFirmwareImage.image_data: the borrowed buffer
    usize_bits,     \* width of usize on the build target
    enc_entry,      \* the entry point the image was encoded from
    enc_recs,       \* the segment records the image was encoded from
    segments_ret,   \* per stream: outcome of the segments() call
    pos,            \* per stream: SectionIter.pos
    remaining,      \* per stream: SectionIter.remaining
    last,           \* per stream: what the latest next() returned
    yielded,        \* per stream: the segments next() has returned so far
    entry_ret       \* what the latest entry() call returned

vars == <<image_data, usize_bits, enc_entry, enc_recs, segments_ret, pos,
          remaining, last, yielded, entry_ret>>

input == <<image_data, usize_bits, enc_entry, enc_recs>>

\* EspFirmwareImage::new: any buffer is accepted unvalidated
Init ==
    /\ \E e \in EntryVals, c \in 0..MaxSegs, n \in 0..MaxSegs :
       \E lens \in [1..n -> 0..MaxPayload] :
          LET recs == [i \in 1..n |->
                         CodeSegmentNew(AddrVals[((i - 1) % 2) + 1],
                                        [j \in 1..lens[i] |-> PayloadByte(i, j)])]
          IN  \E dmg \in Damages(recs) :
                 /\ image_data = EncodeImage(e, c, recs, dmg)
                 /\ enc_entry = e
                 /\ enc_recs = recs
    /\ usize_bits \in TargetWidths
    /\ segments_ret = [s \in Streams |-> "uncalled"]
    /\ pos = [s \in Streams |-> 0]
    /\ remaining = [s \in Streams |-> 0]
    /\ last = [s \in Streams |-> "nostream"]
    /\ yielded = [s \in Streams |-> <<>>]
    /\ entry_ret = [kind |-> "uncalled", value |-> NoU32]

\* a call of entry()
Entry ==
    /\ entry_ret' = EntryOf(image_data)
    /\ UNCHANGED <<input, segments_ret, pos, remaining, last, yielded>>

\* a call of segments() whose result is kept as stream s
Segments(s) ==
    LET it == SegmentsOf(image_data)
    IN  /\ segments_ret' = [segments_ret EXCEPT ![s] = it.kind]
        /\ IF it.kind = "iter"
           THEN /\ pos' = [pos EXCEPT ![s] = it.pos]
                /\ remaining' = [remaining EXCEPT ![s] = it.remaining]
                /\ last' = [last EXCEPT ![s] = "fresh"]
                /\ yielded' = [yielded EXCEPT ![s] = <<>>]
           ELSE UNCHANGED <<pos, remaining, last, yielded>>
        /\ UNCHANGED <<input, entry_ret>>

\* next() on stream s with the cursor kept in one place for all streams
AdvanceShared(s) ==
    /\ segments_ret[s] = "iter"
    /\ LET r == NextOf(image_data, usize_bits, pos[s], remaining[s])
       IN  /\ pos' = [t \in Streams |-> r.pos]
           /\ remaining' = [remaining EXCEPT ![s] = r.remaining]
           /\ last' = [last EXCEPT ![s] = r.kind]
           /\ yielded' = [yielded EXCEPT ![s] =
                            IF r.kind = "some" THEN Append(@, r.item) ELSE @]
    /\ UNCHANGED <<input, segments_ret, entry_ret>>

\* a call of next() on stream s
Advance(s) ==
    /\ segments_ret[s] = "iter"
    /\ LET r == NextOf(image_data, usize_bits, pos[s], remaining[s])
       IN  /\ pos' = [pos EXCEPT ![s] = r.pos]
           /\ remaining' = [remaining EXCEPT ![s] = r.remaining]
           /\ last' = [last EXCEPT ![s] = r.kind]
           /\ yielded' = [yielded EXCEPT ![s] =
                            IF r.kind = "some" THEN Append(@, r.item) ELSE @]
    /\ UNCHANGED <<input, segments_ret, entry_ret>>

Next ==
    \/ Entry
    \/ \E s \in Streams : Segments(s)
    \/ \E s \in Streams : Advance(s)

Spec == Init /\ [][Next]_vars

(* ---------------- mathematical reading of an image ---------------- *)

\* the header's segment_count byte (for a buffer holding a whole header)
SegmentCount(d) == d[SEGMENT_COUNT_OFFSET + 1]

\* the length field of the segment header at offset c, as a number
\* (only for headers whose two high length bytes are 0)
LengthAt(d, c) == d[c + 5] + 256 * d[c + 6]

\* the segment header at offset c lies inside the buffer
HeaderFits(d, c) == c + SEGMENT_HEADER_SIZE <= Len(d)

\* the payload declared by the segment header at offset c lies inside the
\* buffer: c + SEGMENT_HEADER_SIZE + length <= Len(d), over the integers
PayloadFits(d, c) ==
    /\ d[c + 7] = 0
    /\ d[c + 8] = 0
    /\ c + SEGMENT_HEADER_SIZE + LengthAt(d, c) <= Len(d)

RECURSIVE WellFormedFrom(_, _, _)
\* k complete segment records lie back to back from offset c on
WellFormedFrom(d, c, k) ==
    \/ k = 0
    \/ /\ HeaderFits(d, c)
       /\ PayloadFits(d, c)
       /\ WellFormedFrom(d, c + SEGMENT_HEADER_SIZE + LengthAt(d, c), k - 1)

\* a whole header followed by segment_count complete records
WellFormed(d) ==
    /\ Len(d) >= HEADER_SIZE
    /\ WellFormedFrom(d, HEADER_SIZE, SegmentCount(d))

RECURSIVE FirstMalformedFrom(_, _, _, _)
\* the index of the first of the records i..k, the i-th lying at offset c,
\* whose segment header or payload does not fit the buffer; 0 when all fit
FirstMalformedFrom(d, c, i, k) ==
    IF i > k THEN 0
    ELSE IF ~HeaderFits(d, c) \/ ~PayloadFits(d, c) THEN i
    ELSE FirstMalformedFrom(d, c + SEGMENT_HEADER_SIZE + LengthAt(d, c),
                            i + 1, k)

\* the index of the first malformed one of the segment_count records
FirstMalformed(d) == FirstMalformedFrom(d, HEADER_SIZE, 1, SegmentCount(d))

RECURSIVE RecordSizes(_, _)
\* the bytes taken by the first j records of recs
RecordSizes(recs, j) ==
    IF j = 0 THEN 0
    ELSE RecordSizes(recs, j - 1) + SEGMENT_HEADER_SIZE + Len(recs[j].data)

\* the stream that segments() returns over d (of at least HEADER_SIZE
\* bytes), before any call of next()
SoloStart(d) ==
    [pos |-> SegmentsOf(d).pos, remaining |-> SegmentsOf(d).remaining,
     last |-> "fresh", yielded |-> <<>>]

\* a stream st over d after one more call of next()
SoloStep(d, bits, st) ==
    LET r == NextOf(d, bits, st.pos, st.remaining)
    IN  [pos |-> r.pos, remaining |-> r.remaining, last |-> r.kind,
         yielded |-> IF r.kind = "some" THEN Append(st.yielded, r.item)
                     ELSE st.yielded]

RECURSIVE SoloReaches(_, _, _, _, _)
\* a stream over d that is in state cur and runs with nothing else running
\* is in state st now or after at most k calls of next()
SoloReaches(d, bits, cur, k, st) ==
    \/ cur = st
    \/ /\ k > 0
       /\ SoloReaches(d, bits, SoloStep(d, bits, cur), k - 1, st)

\* stream s as a record
StreamState(s) ==
    [pos |-> pos[s], remaining |-> remaining[s], last |-> last[s],
     yielded |-> yielded[s]]

RECURSIVE RecordsEnd(_, _, _)
\* the offset after k complete records that lie back to back from offset c
RecordsEnd(d, c, k) ==
    IF k = 0 THEN c
    ELSE RecordsEnd(d, c + SEGMENT_HEADER_SIZE + LengthAt(d, c), k - 1)

\* byte strings put after the counted records of an image: nothing, one
\* byte, eight bytes 0xFF, and a complete record with a one-byte payload
Tails ==
    {<<>>, <<0>>, <<255, 255, 255, 255, 255, 255, 255, 255>>,
     EncodeRecord(CodeSegmentNew(AddrVals[1], <<7>>), U32(0, 1))}

(* ---------------- properties ---------------- *)

\* the bytes of the buffer from offset a up to offset b (exclusive)
Range(d, a, b) == [j \in 1..(b - a) |-> d[a + j]]

\* C1: on a well-formed image with segment_count = k, a stream yields
\* exactly k segments before it ends, the i-th being the i-th record the
\* image was encoded from, and no advance fails.
C1_YieldsRecordsInOrder ==
    \A s \in Streams :
        (segments_ret[s] = "iter" /\ WellFormed(image_data)) =>
            LET k == SegmentCount(image_data)
            IN  /\ last[s] \in {"fresh", "some", "none"}
                /\ Len(yielded[s]) <= k
                /\ \A i \in 1..Len(yielded[s]) : yielded[s][i] = enc_recs[i]
                /\ (last[s] = "none" => Len(yielded[s]) = k)
                /\ (Len(yielded[s]) < k => remaining[s] > 0)

\* reached: a stream over a well-formed image with MaxSegs records of
\* different payload lengths has yielded them all and then ended
C1_Witness ==
    \E s \in Streams :
        /\ WellFormed(image_data)
        /\ SegmentCount(image_data) = MaxSegs
        /\ last[s] = "none"
        /\ Len(yielded[s]) = MaxSegs
        /\ Len(yielded[s][1].data) = 2
        /\ Len(yielded[s][2].data) = 1

\* C2: an advance that yields a segment at cursor c yields the address
\* field of the segment header at c, and as data exactly the `length` bytes
\* at [c + SEGMENT_HEADER_SIZE, c + SEGMENT_HEADER_SIZE + length), length
\* being the length field of that header.
C2_SegmentIsHeaderAndPayload ==
    [][\A s \in Streams :
        (Advance(s) /\ last'[s] = "some") =>
            LET c == pos[s]
                d == image_data
                seg == yielded'[s][Len(yielded'[s])]
                length == d[c + 5] + 256 * d[c + 6]
                            + 65536 * d[c + 7] + 16777216 * d[c + 8]
            IN  /\ Len(yielded'[s]) = Len(yielded[s]) + 1
                /\ seg.addr.lo = d[c + 1] + 256 * d[c + 2]
                /\ seg.addr.hi = d[c + 3] + 256 * d[c + 4]
                /\ Len(seg.data) = length
                /\ seg.data = Range(d, c + SEGMENT_HEADER_SIZE,
                                    c + SEGMENT_HEADER_SIZE + length)]_vars

\* reached: the second segment of an image was yielded, with a payload of
\* two bytes that are the buffer's last two
C2_Witness ==
    \E s \in Streams :
        /\ last[s] = "some"
        /\ Len(yielded[s]) = 2
        /\ Len(yielded[s][2].data) = 2
        /\ yielded[s][2].addr = AddrVals[2]
        /\ yielded[s][2].data =
              Range(image_data, Len(image_data) - 2, Len(image_data))

\* C3: on a well-formed image the cursor starts at HEADER_SIZE and after j
\* yielded segments is HEADER_SIZE plus the sizes (segment header and
\* payload) of the first j records; when the image holds nothing but the
\* counted records, the stream ends with the cursor at the buffer's end.
C3_CursorIsSumOfRecords ==
    \A s \in Streams :
        (segments_ret[s] = "iter" /\ WellFormed(image_data)) =>
            LET j == Len(yielded[s])
            IN  /\ (last[s] = "fresh" => pos[s] = HEADER_SIZE)
                /\ pos[s] = HEADER_SIZE + RecordSizes(enc_recs, j)
                /\ pos[s] = HEADER_SIZE + RecordSizes(yielded[s], j)
                /\ (last[s] = "none"
                      /\ SegmentCount(image_data) = Len(enc_recs))
                     => pos[s] = Len(image_data)

\* reached: a stream has consumed a whole well-formed image of MaxSegs
\* records with payloads, ending at the buffer's end
C3_Witness ==
    \E s \in Streams :
        /\ WellFormed(image_data)
        /\ last[s] = "none"
        /\ Len(yielded[s]) = MaxSegs
        /\ Len(yielded[s][1].data) = 1
        /\ Len(yielded[s][2].data) = 2
        /\ pos[s] = Len(image_data)
        /\ pos[s] = HEADER_SIZE + MaxSegs * SEGMENT_HEADER_SIZE + 3

\* the outcomes of an advance that the code can report without failing
Plain == {"nostream", "fresh", "some", "none"}

\* C4: on a buffer shorter than the header, entry() and segments() fail
\* with a truncated-header error and do not panic.
C4_ShortBufferIsAnError ==
    Len(image_data) < HEADER_SIZE =>
        /\ entry_ret.kind \in {"uncalled", "TruncatedHeader"}
        /\ \A s \in Streams : segments_ret[s] \in {"uncalled", "TruncatedHeader"}

\* C5: an advance at a segment header whose declared payload ends past the
\* buffer fails with a truncated-payload error and yields nothing.
C5_LongPayloadIsAnError ==
    [][\A s \in Streams :
        (/\ Advance(s)
         /\ remaining[s] > 0
         /\ HeaderFits(image_data, pos[s])
         /\ ~PayloadFits(image_data, pos[s]))
        => /\ last'[s] = "TruncatedPayload"
           /\ yielded'[s] = yielded[s]]_vars

\* C6: an advance made while a segment is expected and fewer than
\* SEGMENT_HEADER_SIZE bytes remain at the cursor fails with a
\* truncated-segment-header error.
C6_ShortSegmentHeaderIsAnError ==
    [][\A s \in Streams :
        (/\ Advance(s)
         /\ remaining[s] > 0
         /\ ~HeaderFits(image_data, pos[s]))
        => /\ last'[s] = "TruncatedSegmentHeader"
           /\ yielded'[s] = yielded[s]]_vars

\* C7: after a failed advance no later advance yields a segment, and a
\* stream never ends normally having yielded fewer than segment_count
\* segments.
C7_FailureIsFinal ==
    /\ [](\A s \in Streams :
            last[s] = "none" => Len(yielded[s]) = SegmentCount(image_data))
    /\ [][\A s \in Streams :
            (last[s] \notin Plain /\ Advance(s)) => yielded'[s] = yielded[s]]_vars

\* C8: entry() returns the little-endian u32 of the buffer's first four
\* bytes, which is the entry point the image was encoded from, whatever
\* the other bytes are and however far the streams have advanced.
C8_EntryIsFirstFourBytes ==
    /\ entry_ret.kind = "value" =>
          /\ entry_ret.value = enc_entry
          /\ entry_ret.value.lo = image_data[1] + 256 * image_data[2]
          /\ entry_ret.value.hi = image_data[3] + 256 * image_data[4]
    /\ Len(image_data) >= HEADER_SIZE =>
          EntryOf(image_data) = [kind |-> "value", value |-> enc_entry]

\* reached: entry() has returned 0x01020304 for an image whose streams have
\* both advanced, one of them to the end
C8_Witness ==
    /\ entry_ret = [kind |-> "value", value |-> U32(258, 772)]
    /\ Len(yielded[1]) = 1
    /\ Len(yielded[2]) = MaxSegs
    /\ last[2] = "none"

\* C9: two streams over the same buffer that have both been iterated to
\* the end have yielded the same sequence, and a stream just returned by
\* segments() is at HEADER_SIZE with segment_count remaining and nothing
\* yielded, whatever the other stream has done.
C9_SegmentsIsReplayable ==
    /\ \A s, t \in Streams :
          (last[s] = "none" /\ last[t] = "none") => yielded[s] = yielded[t]
    /\ \A s \in Streams :
          last[s] = "fresh" =>
             /\ pos[s] = HEADER_SIZE
             /\ remaining[s] = SegmentCount(image_data)
             /\ yielded[s] = <<>>

\* reached: stream 2 is fresh while stream 1 has already yielded
\* MaxSegs segments and ended
C9_Witness ==
    /\ last[1] = "none"
    /\ Len(yielded[1]) = MaxSegs
    /\ last[2] = "fresh"
    /\ remaining[2] = MaxSegs

\* C10: a stream starts with remaining = segment_count; an advance never
\* raises remaining and lowers it by one when it yields; once an advance
\* has returned nothing, every advance returns nothing and leaves the
\* cursor and the remaining count as they are.
C10_RemainingThenDone ==
    /\ [](\A s \in Streams :
            last[s] = "none" =>
               /\ remaining[s] = 0
               /\ NextOf(image_data, usize_bits, pos[s], remaining[s]).kind = "none"
               /\ NextOf(image_data, usize_bits, pos[s], remaining[s]).pos = pos[s]
               /\ NextOf(image_data, usize_bits, pos[s], remaining[s]).remaining = 0)
    /\ [][\A s \in Streams :
            /\ Segments(s) /\ segments_ret'[s] = "iter"
                  => remaining'[s] = SegmentCount(image_data)
            /\ Advance(s) =>
                  /\ remaining'[s] <= remaining[s]
                  /\ last'[s] = "some" => remaining'[s] = remaining[s] - 1
                  /\ last[s] = "none" =>
                        /\ last'[s] = "none"
                        /\ pos'[s] = pos[s]
                        /\ remaining'[s] = remaining[s]
                        /\ yielded'[s] = yielded[s]]_vars

\* reached: a stream that yielded MaxSegs segments has returned nothing
C10_Witness ==
    \E s \in Streams :
        /\ last[s] = "none"
        /\ remaining[s] = 0
        /\ Len(yielded[s]) = MaxSegs
        /\ SegmentCount(image_data) = MaxSegs

\* C11: when the m-th record (m > 1) is the first malformed one, a stream
\* yields the first m - 1 records as they were encoded, without a failure,
\* and a failure appears only at the m-th advance.
C11_FailureOnlyAtMalformedRecord ==
    \A s \in Streams :
        (segments_ret[s] = "iter" /\ FirstMalformed(image_data) > 1) =>
            LET m == FirstMalformed(image_data)
                j == Len(yielded[s])
            IN  /\ j <= m - 1
                /\ \A i \in 1..j : yielded[s][i] = enc_recs[i]
                /\ (j < m - 1 => last[s] \in {"fresh", "some"})
                /\ (last[s] \notin Plain => j = m - 1)
                /\ (j = m - 1 => pos[s] = HEADER_SIZE + RecordSizes(enc_recs, j))

\* reached: the second record's payload is cut short; the stream has
\* yielded the first record, with its two payload bytes, and then failed
C11_Witness ==
    \E s \in Streams :
        /\ last[s] = "panic"
        /\ FirstMalformed(image_data) = 2
        /\ HeaderFits(image_data, pos[s])
        /\ ~PayloadFits(image_data, pos[s])
        /\ yielded[s] = <<enc_recs[1]>>
        /\ Len(enc_recs[1].data) = 2

\* C12: for a cursor in the buffer and any u32 length, the payload end
\* cursor + SEGMENT_HEADER_SIZE + length that the next advance computes is the sum
\* over the integers, with no wrap-around, and a length reaching past the
\* buffer is never taken for a range inside it.
C12_OffsetsDoNotWrap ==
    \A s \in Streams :
        (/\ segments_ret[s] = "iter"
         /\ remaining[s] > 0
         /\ HeaderFits(image_data, pos[s])) =>
            LET length == U32FromLE(Bytes(image_data, pos[s] + 4, 4))
                low == pos[s] + SEGMENT_HEADER_SIZE + length.lo
                sum == U32(length.hi + (low \div Half), low % Half)
                end == PayloadEnd(usize_bits, pos[s], length)
            IN  /\ end = sum
                /\ ~PayloadFits(image_data, pos[s]) =>
                      ~SliceWide(image_data, PayloadStart(pos[s]), end).ok

\* C13: under every interleaving of the advances of the streams over one
\* buffer, each stream is in a state, and has yielded the sequence, that
\* it reaches when run alone; an advance or a segments() call on one
\* stream leaves the cursor and remaining count of the others as they are.
C13_StreamsAreIndependent ==
    /\ [](\A s \in Streams :
            segments_ret[s] = "iter" =>
               SoloReaches(image_data, usize_bits, SoloStart(image_data),
                           SegmentCount(image_data) + 1, StreamState(s)))
    /\ [][\A s, t \in Streams :
            (s # t /\ (Advance(s) \/ Segments(s))) =>
               /\ pos'[t] = pos[t]
               /\ remaining'[t] = remaining[t]
               /\ yielded'[t] = yielded[t]
               /\ last'[t] = last[t]]_vars

\* reached: both streams are part-way through the same image at different
\* cursors, stream 1 one segment ahead of stream 2
C13_Witness ==
    /\ last[1] = "some"
    /\ last[2] = "some"
    /\ Len(yielded[1]) = 2
    /\ Len(yielded[2]) = 1
    /\ pos[1] > pos[2]
    /\ remaining[2] = remaining[1] + 1

\* C14: in every state of a stream, over well-formed and malformed images
\* alike, HEADER_SIZE <= cursor <= buffer length, and every yielded
\* segment's header and payload lie inside the part of the buffer before
\* the cursor.
C14_CursorStaysInBuffer ==
    \A s \in Streams :
        segments_ret[s] = "iter" =>
            /\ HEADER_SIZE <= pos[s]
            /\ pos[s] <= Len(image_data)
            /\ HEADER_SIZE + RecordSizes(yielded[s], Len(yielded[s])) = pos[s]

\* reached: on a malformed image a stream has yielded one segment, moved
\* past it, and failed on the next record with bytes still ahead of it
C14_Witness ==
    \E s \in Streams :
        /\ last[s] = "panic"
        /\ ~WellFormed(image_data)
        /\ Len(yielded[s]) = 1
        /\ pos[s] > HEADER_SIZE + SEGMENT_HEADER_SIZE
        /\ pos[s] < Len(image_data)

\* C15: an advance that fails leaves the cursor and the remaining count as
\* they were, so in every state the number of segments yielded plus the
\* remaining count is segment_count.
C15_FailedAdvanceChangesNothing ==
    /\ [][\A s \in Streams :
            (Advance(s) /\ last'[s] \notin Plain) =>
               /\ pos'[s] = pos[s]
               /\ remaining'[s] = remaining[s]]_vars
    /\ [](\A s \in Streams :
            segments_ret[s] = "iter" =>
               Len(yielded[s]) + remaining[s] = SegmentCount(image_data))

\* C16: on an image whose segment_count records are complete, a stream
\* never fails and never moves past the last counted record, and its
\* state and yielded segments are those of a stream over any buffer with
\* the same header and counted records but other bytes (or none) after
\* them; with segment_count = 0 it stays at the header and yields nothing.
C16_TrailingBytesAreIgnored ==
    \A s \in Streams :
        (segments_ret[s] = "iter" /\ WellFormed(image_data)) =>
            LET k == SegmentCount(image_data)
                e == RecordsEnd(image_data, HEADER_SIZE, k)
            IN  /\ last[s] \in {"fresh", "some", "none"}
                /\ pos[s] <= e
                /\ \A t \in Tails :
                      LET other == SubSeq(image_data, 1, e) \o t
                      IN  SoloReaches(other, usize_bits, SoloStart(other),
                                      k + 1, StreamState(s))
                /\ k = 0 => (pos[s] = HEADER_SIZE /\ yielded[s] = <<>>)

\* reached: a stream over an image that counts one record and holds more
\* bytes after it has yielded that record and ended before those bytes
C16_Witness ==
    \E s \in Streams :
        /\ last[s] = "none"
        /\ WellFormed(image_data)
        /\ SegmentCount(image_data) = 1
        /\ Len(yielded[s]) = 1
        /\ pos[s] < Len(image_data)

====
